---- MODULE Spec2Model ----
(***************************************************************************)
(* Inventory ledger of dima-msinventory: inventory/services/stock.py       *)
(* (apply_stock_move, reverse_stock_move, apply_stock_batch_move,          *)
(* reverse_stock_batch_move) over the tables of inventory/models.py, as    *)
(* called by the viewsets of inventory/views.py.                           *)
(*                                                                         *)
(* A service function is translated into a "plan": its validation result,  *)
(* the InventoryLevel rows it locks (in the order of its                   *)
(* _get_level_for_update calls), the feasibility comparisons it makes on   *)
(* the locked rows, and the F("on_hand") +/- qty updates it issues.  The   *)
(* sequential specifications run a plan in one step; the concurrent ones   *)
(* run it statement group by statement group under row locks.              *)
(***************************************************************************)
EXTENDS Integers, Sequences, FiniteSets, TLC

VARIABLES
    levels,       \* InventoryLevel table: (product, location) -> on_hand
    moves,        \* StockMove table: id -> row
    batches,      \* StockMoveBatch table with its StockMoveLine rows: id -> row
    nextMoveId,   \* next primary key of StockMove
    nextBatchId,  \* next primary key of StockMoveBatch
    last,         \* the call being answered: request, outcome, tables before it
    undo,         \* history: levels before the latest apply, kept over its reversal
    proc,         \* concurrent callers: where each is in its call, the locks it holds
    catalog       \* Product and Location tables: the rows that exist

vars == <<levels, moves, batches, nextMoveId, nextBatchId, last, undo, proc, catalog>>

----------------------------------------------------------------------------
(* Bounds of the model *)

MaxQty == 2        \* quantity of a single movement: 1..MaxQty
MaxLines == 2      \* lines of a batch request: 1..MaxLines
MaxMoves == 2      \* StockMove rows ever created in a run
MaxSeed == 2       \* on_hand of an InventoryLevel row present at the start
NumWorkers == 2    \* concurrent callers

----------------------------------------------------------------------------
(* models.py *)

INBOUND == "INBOUND"
OUTBOUND == "OUTBOUND"
TRANSFER == "TRANSFER"
TYPES == {INBOUND, OUTBOUND, TRANSFER}

Products == {"A", "B"}
Locations == {"MAIN", "STAGING"}
NoLoc == "NONE"                         \* a null from_location / to_location

\* unique_together (product, location): a row is identified by its key
Keys == Products \X Locations

----------------------------------------------------------------------------
(* Outcomes: "ok", or the StockError raised (named as in the interface)   *)

OK == "ok"
InvalidQuantity == "InvalidQuantity"            \* "Quantity must be positive."
MissingDestination == "MissingDestination"      \* "... require a destination"
MissingSource == "MissingSource"                \* "... require a source"
MissingEndpoint == "MissingEndpoint"            \* "... require both source and destination."
SameLocation == "SameLocation"                  \* "Source and destination locations must differ."
InsufficientStock == "InsufficientStock"        \* "Insufficient stock at source ..."
UnknownKind == "UnknownKind"                    \* "Unknown move type."
EmptyBatch == "EmptyBatch"                      \* "At least one line is required."
InvalidLine == "InvalidLine"                    \* "Line quantity must be positive."
ReversalWouldGoNegative == "ReversalWouldGoNegative"  \* "Cannot reverse: ..."
Conflict == "Conflict"                          \* ProtectedError: 409
MethodNotAllowed == "MethodNotAllowed"          \* update / partial_update: 405
NotFound == "NotFound"                          \* get_object: Http404

----------------------------------------------------------------------------
(* Helpers on sequences *)

Range(s) == {s[i] : i \in DOMAIN s}

RECURSIVE SeqsUpTo(_, _)
SeqsUpTo(S, n) ==
    IF n = 0 THEN {<<>>}
    ELSE LET shorter == SeqsUpTo(S, n - 1)
         IN  shorter \cup {Append(s, x) : s \in {t \in shorter : Len(t) = n - 1}, x \in S}

----------------------------------------------------------------------------
(* Ledger store: InventoryLevel rows under _get_level_for_update          *)

\* on_hand as a reader sees it; a pair never touched has no row
OnHand(lv, k) == IF k \in DOMAIN lv THEN lv[k] ELSE 0

\* get_or_create(product, location, defaults={"on_hand": 0})
get_or_create(lv, k) ==
    IF k \in DOMAIN lv THEN lv
    ELSE [x \in DOMAIN lv \cup {k} |-> IF x = k THEN 0 ELSE lv[x]]

\* the table after every _get_level_for_update call of a plan has run
RECURSIVE LockAll(_, _)
LockAll(lv, locks) ==
    IF locks = <<>> THEN lv
    ELSE LockAll(get_or_create(lv, Head(locks)), Tail(locks))

\* fault: the comparison written the wrong way round
Insufficient_Flipped(on_hand, qty) == qty < on_hand

\* `if lvl.on_hand < qty: raise StockError(...)`
Insufficient(on_hand, qty) == on_hand < qty

\* fault: read-then-write, the new value computed from the balance read when
\* the concurrent calls started (`lvl.on_hand = lvl.on_hand + d` on a cached row)
SaveDelta_Cached(lv, k, d) == [lv EXCEPT ![k] = OnHand(undo.pre, k) + d]

\* fault: the quantity stored instead of added (`lvl.on_hand = d`)
SaveDelta_Assign(lv, k, d) == [lv EXCEPT ![k] = d]

\* fault: the update filtered by product only, every location's row changed
SaveDelta_WholeProduct(lv, k, d) ==
    [x \in DOMAIN lv |-> IF x[1] = k[1] THEN lv[x] + d ELSE lv[x]]

\* `lvl.on_hand = F("on_hand") + d; lvl.save(update_fields=["on_hand"])`
SaveDelta(lv, k, d) == [lv EXCEPT ![k] = @ + d]

RECURSIVE ApplyDeltas(_, _)
ApplyDeltas(lv, deltas) ==
    IF deltas = <<>> THEN lv
    ELSE ApplyDeltas(SaveDelta(lv, Head(deltas).key, Head(deltas).d), Tail(deltas))

Delta(p, l, d) == [key |-> <<p, l>>, d |-> d]
Need(p, l, q) == [key |-> <<p, l>>, qty |-> q]

\* a StockError raised before any row is touched
Reject(e) ==
    [err |-> e, locks |-> <<>>, checks |-> <<>>, failErr |-> e, deltas |-> <<>>]

Proceed(locks, checks, failErr, deltas) ==
    [err |-> OK, locks |-> locks, checks |-> checks, failErr |-> failErr,
     deltas |-> deltas]

----------------------------------------------------------------------------
(* apply_stock_move *)

\* fault: TRANSFER without the comparison of the two locations
PlanApplyMove_NoSameCheck(type, product, qty, from_location, to_location) ==
    IF qty <= 0 THEN Reject(InvalidQuantity)
    ELSE IF type = INBOUND THEN
        IF to_location = NoLoc THEN Reject(MissingDestination)
        ELSE Proceed(<< <<product, to_location>> >>, <<>>, OK,
                     << Delta(product, to_location, qty) >>)
    ELSE IF type = OUTBOUND THEN
        IF from_location = NoLoc THEN Reject(MissingSource)
        ELSE Proceed(<< <<product, from_location>> >>,
                     << Need(product, from_location, qty) >>, InsufficientStock,
                     << Delta(product, from_location, 0 - qty) >>)
    ELSE IF type = TRANSFER THEN
        IF from_location = NoLoc \/ to_location = NoLoc THEN Reject(MissingEndpoint)
        ELSE Proceed(<< <<product, from_location>>, <<product, to_location>> >>,
                     << Need(product, from_location, qty) >>, InsufficientStock,
                     << Delta(product, from_location, 0 - qty),
                        Delta(product, to_location, qty) >>)
    ELSE Reject(UnknownKind)

PlanApplyMove(type, product, qty, from_location, to_location) ==
    IF qty <= 0 THEN Reject(InvalidQuantity)
    ELSE IF type = INBOUND THEN
        IF to_location = NoLoc THEN Reject(MissingDestination)
        ELSE Proceed(<< <<product, to_location>> >>, <<>>, OK,
                     << Delta(product, to_location, qty) >>)
    ELSE IF type = OUTBOUND THEN
        IF from_location = NoLoc THEN Reject(MissingSource)
        ELSE Proceed(<< <<product, from_location>> >>,
                     << Need(product, from_location, qty) >>, InsufficientStock,
                     << Delta(product, from_location, 0 - qty) >>)
    ELSE IF type = TRANSFER THEN
        IF from_location = NoLoc \/ to_location = NoLoc THEN Reject(MissingEndpoint)
        ELSE IF from_location = to_location THEN Reject(SameLocation)
        ELSE Proceed(<< <<product, from_location>>, <<product, to_location>> >>,
                     << Need(product, from_location, qty) >>, InsufficientStock,
                     << Delta(product, from_location, 0 - qty),
                        Delta(product, to_location, qty) >>)
    ELSE Reject(UnknownKind)

\* StockMove.objects.create(...)
MoveRow(type, product, qty, from_location, to_location) ==
    [type |-> type, product |-> product, qty |-> qty,
     from_location |-> from_location, to_location |-> to_location]

----------------------------------------------------------------------------
(* reverse_stock_move *)

\* fault: the inverse delta applied without the `if to_lvl.on_hand < qty` checks
PlanReverseMove_Unchecked(move) ==
    IF move.type = INBOUND THEN
        Proceed(<< <<move.product, move.to_location>> >>, <<>>, OK,
                << Delta(move.product, move.to_location, 0 - move.qty) >>)
    ELSE IF move.type = OUTBOUND THEN
        Proceed(<< <<move.product, move.from_location>> >>, <<>>, OK,
                << Delta(move.product, move.from_location, move.qty) >>)
    ELSE
        Proceed(<< <<move.product, move.to_location>>,
                   <<move.product, move.from_location>> >>, <<>>, OK,
                << Delta(move.product, move.to_location, 0 - move.qty),
                   Delta(move.product, move.from_location, move.qty) >>)

\* fault: the TRANSFER branch gives the quantity back to the destination
PlanReverseMove_WrongSide(move) ==
    IF move.type = INBOUND THEN
        Proceed(<< <<move.product, move.to_location>> >>,
                << Need(move.product, move.to_location, move.qty) >>,
                ReversalWouldGoNegative,
                << Delta(move.product, move.to_location, 0 - move.qty) >>)
    ELSE IF move.type = OUTBOUND THEN
        Proceed(<< <<move.product, move.from_location>> >>, <<>>, OK,
                << Delta(move.product, move.from_location, move.qty) >>)
    ELSE
        Proceed(<< <<move.product, move.to_location>>,
                   <<move.product, move.from_location>> >>,
                << Need(move.product, move.to_location, move.qty) >>,
                ReversalWouldGoNegative,
                << Delta(move.product, move.to_location, 0 - move.qty),
                   Delta(move.product, move.to_location, move.qty) >>)

PlanReverseMove(move) ==
    IF move.type = INBOUND THEN
        IF move.to_location = NoLoc THEN Reject(MissingDestination)
        ELSE Proceed(<< <<move.product, move.to_location>> >>,
                     << Need(move.product, move.to_location, move.qty) >>,
                     ReversalWouldGoNegative,
                     << Delta(move.product, move.to_location, 0 - move.qty) >>)
    ELSE IF move.type = OUTBOUND THEN
        IF move.from_location = NoLoc THEN Reject(MissingSource)
        ELSE Proceed(<< <<move.product, move.from_location>> >>, <<>>, OK,
                     << Delta(move.product, move.from_location, move.qty) >>)
    ELSE IF move.type = TRANSFER THEN
        IF move.from_location = NoLoc \/ move.to_location = NoLoc
        THEN Reject(MissingEndpoint)
        ELSE Proceed(<< <<move.product, move.to_location>>,
                        <<move.product, move.from_location>> >>,
                     << Need(move.product, move.to_location, move.qty) >>,
                     ReversalWouldGoNegative,
                     << Delta(move.product, move.to_location, 0 - move.qty),
                        Delta(move.product, move.from_location, move.qty) >>)
    ELSE Reject(UnknownKind)

----------------------------------------------------------------------------
(* _group_lines_by_product: totals, a dict in insertion order, as the     *)
(* sequence of its (product, qty) items                                    *)

Line(p, q) == [product |-> p, qty |-> q]

HasProduct(totals, p) == \E i \in DOMAIN totals : totals[i].product = p

\* fault: a later line of a product replaces the earlier one (`totals[pid] = qty`)
AddToTotals_Overwrite(totals, ln) ==
    IF HasProduct(totals, ln.product)
    THEN [i \in DOMAIN totals |->
            IF totals[i].product = ln.product THEN Line(ln.product, ln.qty)
            ELSE totals[i]]
    ELSE Append(totals, Line(ln.product, ln.qty))

\* `totals[pid] = totals[pid] + qty` on a defaultdict(Decimal)
AddToTotals(totals, ln) ==
    IF HasProduct(totals, ln.product)
    THEN [i \in DOMAIN totals |->
            IF totals[i].product = ln.product
            THEN Line(ln.product, totals[i].qty + ln.qty)
            ELSE totals[i]]
    ELSE Append(totals, Line(ln.product, ln.qty))

RECURSIVE SumInto(_, _)
SumInto(totals, lines) ==
    IF lines = <<>> THEN totals
    ELSE SumInto(AddToTotals(totals, Head(lines)), Tail(lines))

\* fault: the sign tested on the consolidated totals instead of on each line
LinesPositive_Summed(lines) ==
    \A i \in DOMAIN lines :
        ~(SumInto(<<>>, SelectSeq(lines, LAMBDA ln : ln.product = lines[i].product))[1].qty <= 0)

\* `if qty <= 0: raise StockError("Line quantity must be positive.")`
LinesPositive(lines) == \A i \in DOMAIN lines : ~(lines[i].qty <= 0)

group_lines_by_product(lines) == SumInto(<<>>, lines)

----------------------------------------------------------------------------
(* apply_stock_batch_move *)

\* `for pid in totals: levels_x[pid] = lock_level(pid, loc)`
LockEach(totals, loc) == [i \in DOMAIN totals |-> <<totals[i].product, loc>>]

\* `for pid, q in totals.items(): if levels_src[pid].on_hand < q: raise`
NeedEach(totals, loc) == [i \in DOMAIN totals |-> Need(totals[i].product, loc, totals[i].qty)]

\* `for pid, q in totals.items(): lvl.on_hand = F("on_hand") + sign * q`
DeltaEach(totals, loc, sign) ==
    [i \in DOMAIN totals |-> Delta(totals[i].product, loc, sign * totals[i].qty)]

\* fault: the second update of the TRANSFER loop carries the first one's sign
DeltaPairs_SignSlip(totals, first, sfirst, second, ssecond) ==
    [j \in 1..(2 * Len(totals)) |->
        LET i == (j + 1) \div 2
        IN  IF j % 2 = 1
            THEN Delta(totals[i].product, first, sfirst * totals[i].qty)
            ELSE Delta(totals[i].product, second, sfirst * totals[i].qty)]

\* the TRANSFER loop: per product, first update at `first`, then at `second`
DeltaPairs(totals, first, sfirst, second, ssecond) ==
    [j \in 1..(2 * Len(totals)) |->
        LET i == (j + 1) \div 2
        IN  IF j % 2 = 1
            THEN Delta(totals[i].product, first, sfirst * totals[i].qty)
            ELSE Delta(totals[i].product, second, ssecond * totals[i].qty)]

PlanApplyBatch(type, from_location, to_location, lines) ==
    IF type \notin TYPES THEN Reject(UnknownKind)
    ELSE IF type = INBOUND /\ to_location = NoLoc THEN Reject(MissingDestination)
    ELSE IF type = OUTBOUND /\ from_location = NoLoc THEN Reject(MissingSource)
    ELSE IF type = TRANSFER /\ (from_location = NoLoc \/ to_location = NoLoc)
        THEN Reject(MissingEndpoint)
    ELSE IF type = TRANSFER /\ from_location = to_location THEN Reject(SameLocation)
    ELSE IF lines = <<>> THEN Reject(EmptyBatch)
    ELSE IF ~LinesPositive(lines) THEN Reject(InvalidLine)
    ELSE LET totals == group_lines_by_product(lines)
             src == IF type \in {OUTBOUND, TRANSFER}
                    THEN LockEach(totals, from_location) ELSE <<>>
             dst == IF type \in {INBOUND, TRANSFER}
                    THEN LockEach(totals, to_location) ELSE <<>>
             checks == IF type \in {OUTBOUND, TRANSFER}
                       THEN NeedEach(totals, from_location) ELSE <<>>
             deltas == IF type = INBOUND THEN DeltaEach(totals, to_location, 1)
                       ELSE IF type = OUTBOUND THEN DeltaEach(totals, from_location, -1)
                       ELSE DeltaPairs(totals, from_location, -1, to_location, 1)
         IN  Proceed(src \o dst, checks, InsufficientStock, deltas)

\* StockMoveBatch.objects.create(...) and StockMoveLine.objects.bulk_create(...)
BatchRow(type, from_location, to_location, lines) ==
    [type |-> type, from_location |-> from_location, to_location |-> to_location,
     lines |-> group_lines_by_product(lines)]

----------------------------------------------------------------------------
(* reverse_stock_batch_move *)

\* `ln.product if (ln := lines[0]) else Product.objects.get(id=pid)`: the
\* condition is evaluated first and a model instance is truthy, so the row
\* locked for every pid is the one of the first line's product
LockedProduct(lines, pid) == lines[1].product

\* totals, levels_src and levels_dst with every pid's level resolved
Resolved(lines) ==
    LET totals == SumInto(<<>>, lines)
    IN  [i \in DOMAIN totals |->
            Line(LockedProduct(lines, totals[i].product), totals[i].qty)]

\* the TRANSFER branch locks source then destination, per pid
LockPairs(totals, first, second) ==
    [j \in 1..(2 * Len(totals)) |->
        LET i == (j + 1) \div 2
        IN  IF j % 2 = 1 THEN <<totals[i].product, first>>
            ELSE <<totals[i].product, second>>]

\* fault: a batch without lines refused instead of deleted
PlanReverseBatch_RefuseEmpty(batch, lines) ==
    IF lines = <<>> THEN Reject(EmptyBatch)
    ELSE LET lv == Resolved(lines)
         IN  IF batch.type = INBOUND THEN
                 Proceed(LockEach(lv, batch.to_location),
                         NeedEach(lv, batch.to_location), ReversalWouldGoNegative,
                         DeltaEach(lv, batch.to_location, -1))
             ELSE IF batch.type = OUTBOUND THEN
                 Proceed(LockEach(lv, batch.from_location), <<>>, OK,
                         DeltaEach(lv, batch.from_location, 1))
             ELSE
                 Proceed(LockPairs(lv, batch.from_location, batch.to_location),
                         NeedEach(lv, batch.to_location), ReversalWouldGoNegative,
                         DeltaPairs(lv, batch.to_location, -1, batch.from_location, 1))

\* `if not lines: batch.delete(); return`, then the branch of the kind
PlanReverseBatch(batch, lines) ==
    IF lines = <<>> THEN Proceed(<<>>, <<>>, OK, <<>>)
    ELSE LET lv == Resolved(lines)
         IN  IF batch.type = INBOUND THEN
                 Proceed(LockEach(lv, batch.to_location),
                         NeedEach(lv, batch.to_location), ReversalWouldGoNegative,
                         DeltaEach(lv, batch.to_location, -1))
             ELSE IF batch.type = OUTBOUND THEN
                 Proceed(LockEach(lv, batch.from_location), <<>>, OK,
                         DeltaEach(lv, batch.from_location, 1))
             ELSE
                 Proceed(LockPairs(lv, batch.from_location, batch.to_location),
                         NeedEach(lv, batch.to_location), ReversalWouldGoNegative,
                         DeltaPairs(lv, batch.to_location, -1, batch.from_location, 1))

----------------------------------------------------------------------------
(* One @transaction.atomic call run to its end with no other caller        *)

\* every feasibility comparison of the plan, on the rows it holds locked
ChecksPass(lv, plan) ==
    LET held == LockAll(lv, plan.locks)
    IN  \A i \in DOMAIN plan.checks :
            ~Insufficient(held[plan.checks[i].key], plan.checks[i].qty)

\* fault: no @transaction.atomic, the rows created before a raise stay
Outcome_NoRollback(lv, plan) ==
    IF plan.err # OK THEN [res |-> plan.err, levels |-> lv]
    ELSE IF ~ChecksPass(lv, plan)
         THEN [res |-> plan.failErr, levels |-> LockAll(lv, plan.locks)]
    ELSE [res |-> OK, levels |-> ApplyDeltas(LockAll(lv, plan.locks), plan.deltas)]

\* the committed table: a raise rolls back the rows created and the updates
Outcome(lv, plan) ==
    IF plan.err # OK THEN [res |-> plan.err, levels |-> lv]
    ELSE IF ~ChecksPass(lv, plan) THEN [res |-> plan.failErr, levels |-> lv]
    ELSE [res |-> OK, levels |-> ApplyDeltas(LockAll(lv, plan.locks), plan.deltas)]

----------------------------------------------------------------------------
(* Requests offered to the service *)

Qtys == 1..MaxQty

\* a movement with the endpoints its kind uses
MoveRequests ==
    {MoveRow(INBOUND, p, q, NoLoc, t) : p \in Products, q \in Qtys, t \in Locations}
    \cup {MoveRow(OUTBOUND, p, q, f, NoLoc) : p \in Products, q \in Qtys, f \in Locations}
    \cup {MoveRow(TRANSFER, p, q, lt[1], lt[2]) :
            p \in Products, q \in Qtys,
            lt \in {x \in Locations \X Locations : x[1] # x[2]}}

LineInputs == {Line(p, q) : p \in Products, q \in Qtys}

BatchRequest(type, from_location, to_location, lines) ==
    [type |-> type, from_location |-> from_location, to_location |-> to_location,
     lines |-> lines]

LineLists == SeqsUpTo(LineInputs, MaxLines) \ {<<>>}

BatchRequests ==
    {BatchRequest(INBOUND, NoLoc, t, ls) : t \in Locations, ls \in LineLists}
    \cup {BatchRequest(OUTBOUND, f, NoLoc, ls) : f \in Locations, ls \in LineLists}
    \cup {BatchRequest(TRANSFER, lt[1], lt[2], ls) :
            lt \in {x \in Locations \X Locations : x[1] # x[2]}, ls \in LineLists}

\* InventoryLevel rows present at the start (created directly, as the
\* fixture of test_prevent_negative_outbound does), at MAIN only
SeedLevels == UNION {[K -> 0..MaxSeed] : K \in SUBSET (Products \X {"MAIN"})}

\* every Product and every Location row exists
FullCatalog == [products |-> Products, locations |-> Locations]

Tables == [levels |-> levels, moves |-> moves, batches |-> batches, catalog |-> catalog]

NoCall == [op |-> "none"]
NoUndo == [state |-> "none"]

Workers == 1..NumWorkers
NoProc == [pc |-> "idle", held |-> {}]

Idle == last.op = "none"

----------------------------------------------------------------------------
(* Sequential callers: each call runs alone, from request to commit, and   *)
(* its response is returned before the next call is made                   *)

\* timestamp=validated_data.get("timestamp") or timezone.now(): the record
\* keeps the timestamp of a request that carries one; a record without the
\* field was stamped with the time of the call.  Timestamps are counted in
\* whole days before the time at which the reorder suggestions are asked
\* for, a negative number being a time after it.
Stamped(row, r) ==
    IF "timestamp" \in DOMAIN r THEN row @@ ("timestamp" :> r.timestamp) ELSE row

\* StockMoveSerializer.create -> apply_stock_move
ApplySingleMovement(r) ==
    LET plan == PlanApplyMove(r.type, r.product, r.qty, r.from_location, r.to_location)
        out == Outcome(levels, plan)
    IN  /\ Idle
        /\ nextMoveId <= MaxMoves
        /\ r.product \in catalog.products
        /\ {r.from_location, r.to_location} \subseteq catalog.locations \cup {NoLoc}
        /\ levels' = out.levels
        /\ moves' = IF out.res = OK
                    THEN moves @@ (nextMoveId :>
                           Stamped(MoveRow(r.type, r.product, r.qty,
                                           r.from_location, r.to_location), r))
                    ELSE moves
        /\ nextMoveId' = IF out.res = OK THEN nextMoveId + 1 ELSE nextMoveId
        /\ last' = [op |-> "apply_move", req |-> r, res |-> out.res,
                    id |-> nextMoveId, pre |-> Tables]
        /\ undo' = IF out.res = OK
                   THEN [state |-> "applied", op |-> "apply_move", id |-> nextMoveId,
                         pre |-> levels]
                   ELSE NoUndo
        /\ UNCHANGED <<batches, nextBatchId, proc, catalog>>

\* StockMoveViewSet.destroy: get_object, then reverse_stock_move
ReverseSingleMovement(id) ==
    LET found == id \in DOMAIN moves
        out == IF found THEN Outcome(levels, PlanReverseMove(moves[id]))
               ELSE [res |-> NotFound, levels |-> levels]
    IN  /\ Idle
        /\ levels' = out.levels
        /\ moves' = IF out.res = OK THEN [x \in DOMAIN moves \ {id} |-> moves[x]]
                    ELSE moves
        /\ last' = [op |-> "reverse_move", req |-> id, res |-> out.res,
                    id |-> id, pre |-> Tables]
        /\ undo' = IF undo.state = "applied" /\ undo.op = "apply_move" /\ undo.id = id
                   THEN [undo EXCEPT !.state = "reversed"]
                   ELSE NoUndo
        /\ UNCHANGED <<batches, nextMoveId, nextBatchId, proc, catalog>>

\* StockMoveBatchCreateSerializer.create -> apply_stock_batch_move
ApplyBatchMovement(r) ==
    LET plan == PlanApplyBatch(r.type, r.from_location, r.to_location, r.lines)
        out == Outcome(levels, plan)
    IN  /\ Idle
        /\ nextBatchId = 1                  \* a run creates one batch
        /\ \A i \in DOMAIN r.lines : r.lines[i].product \in catalog.products
        /\ {r.from_location, r.to_location} \subseteq catalog.locations \cup {NoLoc}
        /\ levels' = out.levels
        /\ batches' = IF out.res = OK
                      THEN batches @@ (nextBatchId :>
                             Stamped(BatchRow(r.type, r.from_location, r.to_location,
                                              r.lines), r))
                      ELSE batches
        /\ nextBatchId' = IF out.res = OK THEN nextBatchId + 1 ELSE nextBatchId
        /\ last' = [op |-> "apply_batch", req |-> r, res |-> out.res,
                    id |-> nextBatchId, pre |-> Tables]
        /\ undo' = IF out.res = OK
                   THEN [state |-> "applied", op |-> "apply_batch", id |-> nextBatchId,
                         pre |-> levels]
                   ELSE NoUndo
        /\ UNCHANGED <<moves, nextMoveId, proc, catalog>>

\* StockMoveBatchViewSet.destroy: get_object, then reverse_stock_batch_move
ReverseBatchMovement(id) ==
    LET found == id \in DOMAIN batches
        out == IF found
               THEN Outcome(levels, PlanReverseBatch(batches[id], batches[id].lines))
               ELSE [res |-> NotFound, levels |-> levels]
    IN  /\ Idle
        /\ levels' = out.levels
        /\ batches' = IF out.res = OK THEN [x \in DOMAIN batches \ {id} |-> batches[x]]
                      ELSE batches
        /\ last' = [op |-> "reverse_batch", req |-> id, res |-> out.res,
                    id |-> id, pre |-> Tables]
        /\ undo' = IF undo.state = "applied" /\ undo.op = "apply_batch" /\ undo.id = id
                   THEN [undo EXCEPT !.state = "reversed"]
                   ELSE NoUndo
        /\ UNCHANGED <<moves, nextMoveId, nextBatchId, proc, catalog>>

\* the response reaches the caller, who may call again
Return ==
    /\ ~Idle
    /\ last' = NoCall
    /\ UNCHANGED <<levels, moves, batches, nextMoveId, nextBatchId, undo, proc, catalog>>

\* rows whose foreign key to the Product is on_delete=PROTECT
ProtectsProduct(p) ==
    \/ \E id \in DOMAIN moves : moves[id].product = p
    \/ \E id \in DOMAIN batches : p \in {batches[id].lines[i].product :
                                            i \in DOMAIN batches[id].lines}

\* rows whose foreign key to the Location is on_delete=PROTECT
ProtectsLocation(l) ==
    \/ \E id \in DOMAIN moves : l \in {moves[id].from_location, moves[id].to_location}
    \/ \E id \in DOMAIN batches : l \in {batches[id].from_location, batches[id].to_location}

\* the InventoryLevel rows that go with a deleted Product or Location
\* (on_delete=CASCADE): what is left of the table
Cascade(lv, gone) == [k \in DOMAIN lv \ gone |-> lv[k]]

\* ProductViewSet.destroy
DeleteProduct(p) ==
    LET res == IF p \notin catalog.products THEN NotFound
               ELSE IF ProtectsProduct(p) THEN Conflict
               ELSE OK
    IN  /\ Idle
        /\ catalog' = IF res = OK THEN [catalog EXCEPT !.products = @ \ {p}]
                       ELSE catalog
        /\ levels' = IF res = OK THEN Cascade(levels, {k \in DOMAIN levels : k[1] = p})
                      ELSE levels
        /\ last' = [op |-> "delete_product", req |-> p, res |-> res, id |-> 0,
                    pre |-> Tables]
        /\ undo' = NoUndo
        /\ UNCHANGED <<moves, batches, nextMoveId, nextBatchId, proc>>

\* LocationViewSet.destroy
DeleteLocation(l) ==
    LET res == IF l \notin catalog.locations THEN NotFound
               ELSE IF ProtectsLocation(l) THEN Conflict
               ELSE OK
    IN  /\ Idle
        /\ catalog' = IF res = OK THEN [catalog EXCEPT !.locations = @ \ {l}]
                       ELSE catalog
        /\ levels' = IF res = OK THEN Cascade(levels, {k \in DOMAIN levels : k[2] = l})
                      ELSE levels
        /\ last' = [op |-> "delete_location", req |-> l, res |-> res, id |-> 0,
                    pre |-> Tables]
        /\ undo' = NoUndo
        /\ UNCHANGED <<moves, batches, nextMoveId, nextBatchId, proc>>

\* fault: the update handler writes the submitted quantity to the row
UpdateMove_Writes(id, qty) ==
    /\ Idle
    /\ moves' = IF id \in DOMAIN moves THEN [moves EXCEPT ![id].qty = qty] ELSE moves
    /\ last' = [op |-> "update_move", req |-> qty, res |-> OK, id |-> id,
                pre |-> Tables]
    /\ undo' = NoUndo
    /\ UNCHANGED <<levels, batches, nextMoveId, nextBatchId, proc, catalog>>

\* StockMoveViewSet.update / partial_update: answered 405 without a lookup
UpdateMove(id, qty) ==
    /\ Idle
    /\ last' = [op |-> "update_move", req |-> qty, res |-> MethodNotAllowed, id |-> id,
                pre |-> Tables]
    /\ undo' = NoUndo
    /\ UNCHANGED <<levels, moves, batches, nextMoveId, nextBatchId, proc, catalog>>

\* StockMoveBatchViewSet.update / partial_update
UpdateBatch(id, lines) ==
    /\ Idle
    /\ last' = [op |-> "update_batch", req |-> lines, res |-> MethodNotAllowed, id |-> id,
                pre |-> Tables]
    /\ undo' = NoUndo
    /\ UNCHANGED <<levels, moves, batches, nextMoveId, nextBatchId, proc, catalog>>

Init ==
    /\ levels \in SeedLevels
    /\ moves = <<>>
    /\ batches = <<>>
    /\ nextMoveId = 1
    /\ nextBatchId = 1
    /\ last = NoCall
    /\ undo = NoUndo
    /\ proc = [w \in Workers |-> NoProc]
    /\ catalog = FullCatalog

\* single movements and their reversal
NextSingle ==
    \/ \E r \in MoveRequests : ApplySingleMovement(r)
    \/ \E id \in 1..MaxMoves : ReverseSingleMovement(id)
    \/ Return

SpecSingle == Init /\ [][NextSingle]_vars

\* one batch and its reversal
NextBatch ==
    \/ \E r \in BatchRequests : ApplyBatchMovement(r)
    \/ ReverseBatchMovement(1)
    \/ Return

SpecBatch == Init /\ [][NextBatch]_vars

\* applies only, from empty tables: every recorded row is a successful apply
InitEmpty ==
    /\ levels = <<>>
    /\ moves = <<>>
    /\ batches = <<>>
    /\ nextMoveId = 1
    /\ nextBatchId = 1
    /\ last = NoCall
    /\ undo = NoUndo
    /\ proc = [w \in Workers |-> NoProc]
    /\ catalog = FullCatalog

\* the movements offered: stock enters at MAIN, leaves from either location
\* and is transferred from MAIN to STAGING
ApplyMoves ==
    {r \in MoveRequests :
        /\ r.type = INBOUND => r.to_location = "MAIN"
        /\ r.type = TRANSFER => r.from_location = "MAIN"}

\* the batches offered: lines of one unit each (a product may repeat), in at
\* MAIN, out of MAIN, transfers in both directions
ApplyBatches ==
    {r \in BatchRequests :
        /\ \A i \in DOMAIN r.lines : r.lines[i].qty = 1
        /\ r.type = INBOUND => r.to_location = "MAIN"
        /\ r.type = OUTBOUND => r.from_location = "MAIN"}

NextApply ==
    \/ \E r \in ApplyMoves : ApplySingleMovement(r)
    \/ \E r \in ApplyBatches : ApplyBatchMovement(r)
    \/ Return

SpecApply == InitEmpty /\ [][NextApply]_vars

\* single movements, one batch and the reversal of that batch, from empty tables
NextLedger ==
    \/ \E r \in ApplyMoves : ApplySingleMovement(r)
    \/ \E r \in ApplyBatches : ApplyBatchMovement(r)
    \/ ReverseBatchMovement(1)
    \/ Return

SpecLedger == InitEmpty /\ [][NextLedger]_vars

\* requests as a caller can send them: any kind with any combination of
\* endpoints, given or null, and quantities that may be zero or negative
AnyQtys == (0 - 1)..MaxQty
AnyLocs == Locations \cup {NoLoc}

AnyMoveRequests ==
    {MoveRow(t, p, q, f, d) :
        t \in TYPES, p \in Products, q \in AnyQtys, f \in AnyLocs, d \in AnyLocs}

AnyLineLists == SeqsUpTo({Line(p, q) : p \in Products, q \in AnyQtys}, MaxLines)

AnyBatchRequests ==
    {BatchRequest(t, f, d, ls) :
        t \in TYPES, f \in AnyLocs, d \in AnyLocs, ls \in AnyLineLists}

\* one request of any shape against balances of both products at MAIN
InitValidate ==
    /\ levels \in {[k \in Products \X {"MAIN"} |-> n] : n \in 0..MaxSeed}
    /\ moves = <<>>
    /\ batches = <<>>
    /\ nextMoveId = 1
    /\ nextBatchId = 1
    /\ last = NoCall
    /\ undo = NoUndo
    /\ proc = [w \in Workers |-> NoProc]
    /\ catalog = FullCatalog

\* no call is in progress and nothing has been recorded yet
FirstCall == Idle /\ nextMoveId = 1 /\ nextBatchId = 1

SubmitMove == FirstCall /\ \E r \in AnyMoveRequests : ApplySingleMovement(r)

SubmitBatch == FirstCall /\ \E r \in AnyBatchRequests : ApplyBatchMovement(r)

NextValidate == SubmitMove \/ SubmitBatch \/ Return

SpecValidate == InitValidate /\ [][NextValidate]_vars

\* the whole API on the two tables of records and the two catalog tables:
\* one-unit movements, two-line batches, reversals, deletions, updates
CatalogMoves == {r \in MoveRequests : r.qty = 1}

CatalogBatches ==
    {BatchRequest(INBOUND, NoLoc, "MAIN", <<Line("A", 1), Line("B", 1)>>),
     BatchRequest(OUTBOUND, "MAIN", NoLoc, <<Line("A", 1)>>),
     BatchRequest(TRANSFER, "MAIN", "STAGING", <<Line("B", 1), Line("B", 1)>>)}

NextCatalog ==
    \/ \E r \in CatalogMoves : ApplySingleMovement(r)
    \/ \E id \in 1..MaxMoves : ReverseSingleMovement(id)
    \/ \E r \in CatalogBatches : ApplyBatchMovement(r)
    \/ ReverseBatchMovement(1)
    \/ \E p \in Products : DeleteProduct(p)
    \/ \E l \in Locations : DeleteLocation(l)
    \/ \E id \in 1..MaxMoves, q \in Qtys : UpdateMove(id, q)
    \/ \E r \in CatalogBatches : UpdateBatch(1, r.lines)
    \/ Return

SpecCatalog == InitEmpty /\ [][NextCatalog]_vars

----------------------------------------------------------------------------
(* Properties of the sequential service *)

SourceKey(r) == <<r.product, r.from_location>>
DestKey(r) == <<r.product, r.to_location>>

\* C1: in every reachable state, after any sequence of apply and reversal
\* calls (reversal of a batch with lines for several products included),
\* on_hand of every (product, location) balance is >= 0.
C1_OnHandNeverNegative == \A k \in DOMAIN levels : levels[k] >= 0

\* C3: an OUTBOUND ApplySingleMovement whose quantity exceeds on_hand of
\* (product, source) fails with InsufficientStock, leaves the balance at its
\* previous value, creates no balance row and records no MovementEvent.
C3_OutboundBeyondStockFails ==
    (/\ last.op = "apply_move"
     /\ last.req.type = OUTBOUND
     /\ last.req.qty > OnHand(last.pre.levels, SourceKey(last.req)))
    => (/\ last.res = InsufficientStock
        /\ levels = last.pre.levels
        /\ moves = last.pre.moves)

\* C3 happens: stock 2 at the source, 3 asked (the 5-and-6 scenario)
C3_Witness ==
    /\ last.op = "apply_move"
    /\ last.req.type = OUTBOUND
    /\ SourceKey(last.req) \in DOMAIN last.pre.levels
    /\ last.pre.levels[SourceKey(last.req)] > 0
    /\ last.req.qty = last.pre.levels[SourceKey(last.req)] + 1
    /\ last.res = InsufficientStock

\* C4: an INBOUND ApplySingleMovement with quantity q > 0 and a destination
\* always succeeds and sets on_hand(product, destination) to its previous
\* value plus q, a balance that did not exist being created at zero first.
C4_InboundAdds ==
    (/\ last.op = "apply_move"
     /\ last.req.type = INBOUND)
    => (/\ last.res = OK
        /\ DOMAIN levels = DOMAIN last.pre.levels \cup {DestKey(last.req)}
        /\ levels[DestKey(last.req)]
             = OnHand(last.pre.levels, DestKey(last.req)) + last.req.qty
        /\ \A k \in DOMAIN levels \ {DestKey(last.req)} : levels[k] = last.pre.levels[k])

\* C4 happens: INBOUND q into the empty table leaves on_hand = q
C4_Witness ==
    /\ last.op = "apply_move"
    /\ last.req.type = INBOUND
    /\ last.pre.levels = <<>>
    /\ levels = (DestKey(last.req) :> last.req.qty)

----------------------------------------------------------------------------
(* Sums, written without the service's own consolidation *)

RECURSIVE SumSet(_, _)
\* the sum of q[x] over x in S
SumSet(S, q) ==
    IF S = {} THEN 0
    ELSE LET x == CHOOSE y \in S : TRUE
         IN  q[x] + SumSet(S \ {x}, q)

\* total quantity the lines of a request or batch give for product p
LineSum(lines, p) ==
    SumSet({i \in DOMAIN lines : lines[i].product = p},
           [i \in DOMAIN lines |-> lines[i].qty])

LineProducts(lines) == {lines[i].product : i \in DOMAIN lines}

\* on_hand of product p summed over all locations
TotalOnHand(lv, p) ==
    SumSet(Locations, [l \in Locations |-> OnHand(lv, <<p, l>>)])

\* quantity of product p in the recorded single movements of one kind
MovedQty(kind, p) ==
    SumSet({id \in DOMAIN moves : moves[id].type = kind /\ moves[id].product = p},
           [id \in DOMAIN moves |-> moves[id].qty])

\* quantity of product p in the recorded batches of one kind
BatchedQty(kind, p) ==
    SumSet({id \in DOMAIN batches : batches[id].type = kind},
           [id \in DOMAIN batches |-> LineSum(batches[id].lines, p)])

\* C5: starting from empty balances, after any sequence of INBOUND, OUTBOUND
\* and TRANSFER applies (single or batch, succeeding or failing), for every
\* product the sum of on_hand over all locations equals the total quantity
\* of its successful INBOUND movements minus that of its successful OUTBOUND
\* movements; a successful TRANSFER leaves the sum unchanged.
C5_Conservation ==
    /\ \A p \in Products :
          TotalOnHand(levels, p)
            = (MovedQty(INBOUND, p) + BatchedQty(INBOUND, p))
              - (MovedQty(OUTBOUND, p) + BatchedQty(OUTBOUND, p))
    /\ (last.op \in {"apply_move", "apply_batch"} /\ last.req.type = TRANSFER)
         => \A p \in Products : TotalOnHand(levels, p) = TotalOnHand(last.pre.levels, p)
    /\ (last.op \in {"apply_move", "apply_batch"} /\ last.res # OK)
         => levels = last.pre.levels

\* C5 happens: a TRANSFER succeeds for a product with inbound and outbound history
C5_Witness ==
    /\ last.op \in {"apply_move", "apply_batch"}
    /\ last.req.type = TRANSFER
    /\ last.res = OK
    /\ \E p \in Products :
          /\ MovedQty(OUTBOUND, p) + BatchedQty(OUTBOUND, p) > 0
          /\ TotalOnHand(levels, p) > 0
          /\ OnHand(levels, <<p, "STAGING">>) # OnHand(last.pre.levels, <<p, "STAGING">>)

\* some product of the lines asks, in total, for more than its source holds
Short(lv, from_location, lines) ==
    \E p \in LineProducts(lines) : LineSum(lines, p) > OnHand(lv, <<p, from_location>>)

\* C6: an OUTBOUND or TRANSFER ApplyBatchMovement in which at least one
\* consolidated product's source balance is smaller than its consolidated
\* quantity fails as a whole: the balances of every product in the batch are
\* unchanged and no BatchEvent or BatchLine is created.
C6_BatchAllOrNothing ==
    (/\ last.op = "apply_batch"
     /\ last.req.type \in {OUTBOUND, TRANSFER}
     /\ Short(last.pre.levels, last.req.from_location, last.req.lines))
    => (/\ last.res = InsufficientStock
        /\ levels = last.pre.levels
        /\ batches = last.pre.batches)

\* C6 happens: one product of the batch is feasible, another is not
C6_Witness ==
    /\ last.op = "apply_batch"
    /\ last.req.type \in {OUTBOUND, TRANSFER}
    /\ last.res = InsufficientStock
    /\ \E p, q \in LineProducts(last.req.lines) :
          /\ LineSum(last.req.lines, p)
               <= OnHand(last.pre.levels, <<p, last.req.from_location>>)
          /\ LineSum(last.req.lines, q)
               > OnHand(last.pre.levels, <<q, last.req.from_location>>)

\* what a batch of one kind does to the balance at key k
BatchEffect(r, k) ==
    (IF r.type \in {INBOUND, TRANSFER} /\ k[2] = r.to_location
     THEN LineSum(r.lines, k[1]) ELSE 0)
    - (IF r.type \in {OUTBOUND, TRANSFER} /\ k[2] = r.from_location
       THEN LineSum(r.lines, k[1]) ELSE 0)

\* the request with each product listed once, with its summed quantity
RECURSIVE OncePerProduct(_, _)
OncePerProduct(lines, ps) ==
    IF ps = {} THEN <<>>
    ELSE LET p == CHOOSE x \in ps : TRUE
         IN  <<Line(p, LineSum(lines, p))>> \o OncePerProduct(lines, ps \ {p})

\* C7: ApplyBatchMovement consolidates its lines per product: the created
\* batch holds exactly one BatchLine per distinct product, with the sum of
\* that product's input quantities; feasibility is checked against that sum;
\* and the resulting balances equal those of a batch that lists each product
\* once with the summed quantity.
C7_BatchConsolidates ==
    last.op = "apply_batch" =>
      LET r == last.req
          once == OncePerProduct(r.lines, LineProducts(r.lines))
      IN  /\ last.res = OK <=>
                (r.type = INBOUND \/ ~Short(last.pre.levels, r.from_location, r.lines))
          /\ last.res = OK =>
                LET bl == batches[last.id].lines
                IN  /\ Len(bl) = Cardinality(LineProducts(r.lines))
                    /\ {bl[i].product : i \in DOMAIN bl} = LineProducts(r.lines)
                    /\ \A i \in DOMAIN bl : bl[i].qty = LineSum(r.lines, bl[i].product)
          /\ last.res = OK =>
                \A k \in Keys :
                    OnHand(levels, k) = OnHand(last.pre.levels, k) + BatchEffect(r, k)
          /\ levels = Outcome(last.pre.levels,
                              PlanApplyBatch(r.type, r.from_location, r.to_location,
                                             once)).levels

\* C7 happens: two lines of one product are applied as one line of their sum
C7_Witness ==
    /\ last.op = "apply_batch"
    /\ last.res = OK
    /\ last.req.type = OUTBOUND
    /\ Len(last.req.lines) = 2
    /\ last.req.lines[1].product = last.req.lines[2].product
    /\ Len(batches[last.id].lines) = 1
    /\ batches[last.id].lines[1].qty = last.req.lines[1].qty + last.req.lines[2].qty

\* balances agree, a missing row reading as 0
SameBalances(lv1, lv2) == \A k \in Keys : OnHand(lv1, k) = OnHand(lv2, k)

\* C8: for every kind, reversing a MovementEvent immediately after it was
\* applied, with no other operation in between, succeeds, restores every
\* balance the movement touched to its pre-application value and removes the
\* event.
C8_ReverseRestores ==
    (last.op = "reverse_move" /\ undo.state = "reversed")
    => (/\ last.res = OK
        /\ SameBalances(levels, undo.pre)
        /\ last.id \notin DOMAIN moves
        /\ moves = [x \in DOMAIN last.pre.moves \ {last.id} |-> last.pre.moves[x]])

\* C8 happens: a TRANSFER out of stocked MAIN is applied, then reversed
C8_Witness ==
    /\ last.op = "reverse_move"
    /\ undo.state = "reversed"
    /\ last.pre.moves[last.id].type = TRANSFER
    /\ last.res = OK
    /\ last.pre.levels # levels

\* C10: reversing a BatchEvent immediately after it was applied restores the
\* source and destination balance of every product in the batch to its
\* pre-application value, changes no other balance, and deletes the batch
\* together with its lines.
C10_BatchReverseRestores ==
    (last.op = "reverse_batch" /\ undo.state = "reversed")
    => (/\ last.res = OK
        /\ SameBalances(levels, undo.pre)
        /\ last.id \notin DOMAIN batches)

\* C11: reversing an INBOUND or TRANSFER movement whose destination balance
\* is now smaller than the movement's quantity fails with
\* ReversalWouldGoNegative, changes no balance and leaves the movement
\* recorded; reversing an OUTBOUND movement is never refused and adds the
\* quantity back to its source.
C11_ReverseRevalidates ==
    (last.op = "reverse_move" /\ last.id \in DOMAIN last.pre.moves) =>
        LET m == last.pre.moves[last.id]
            pre == last.pre.levels
        IN  /\ (m.type \in {INBOUND, TRANSFER} /\ OnHand(pre, DestKey(m)) < m.qty)
                  => /\ last.res = ReversalWouldGoNegative
                     /\ levels = pre
                     /\ moves = last.pre.moves
            /\ m.type = OUTBOUND
                  => /\ last.res = OK
                     /\ last.id \notin DOMAIN moves
                     /\ OnHand(levels, SourceKey(m)) = OnHand(pre, SourceKey(m)) + m.qty
                     /\ \A k \in Keys \ {SourceKey(m)} : OnHand(levels, k) = OnHand(pre, k)

\* C11 happens: an INBOUND movement is reversed after part of what it
\* brought in has left again, and the reversal is refused
C11_Witness ==
    /\ last.op = "reverse_move"
    /\ last.id \in DOMAIN last.pre.moves
    /\ last.pre.moves[last.id].type = INBOUND
    /\ OnHand(last.pre.levels, DestKey(last.pre.moves[last.id])) > 0
    /\ last.res = ReversalWouldGoNegative

\* the products of a recorded batch whose destination balance is below the
\* quantity the batch holds for them
ShortAtDestination(lv, batch) ==
    {p \in LineProducts(batch.lines) :
        OnHand(lv, <<p, batch.to_location>>) < LineSum(batch.lines, p)}

\* C12: reversing an INBOUND or TRANSFER batch checks every product of the
\* batch against that product's own destination balance: when the destination
\* balance of any one product is smaller than the product's consolidated
\* quantity, the reversal fails with ReversalWouldGoNegative, no balance of
\* any product changes, and the batch with its lines stays recorded.
C12_BatchReverseRevalidates ==
    (/\ last.op = "reverse_batch"
     /\ last.id \in DOMAIN last.pre.batches
     /\ last.pre.batches[last.id].type \in {INBOUND, TRANSFER}
     /\ ShortAtDestination(last.pre.levels, last.pre.batches[last.id]) # {})
    => /\ last.res = ReversalWouldGoNegative
       /\ levels = last.pre.levels
       /\ batches = last.pre.batches

----------------------------------------------------------------------------
(* Properties of request validation *)

Applying == last.op \in {"apply_move", "apply_batch"}

\* the call was refused and nothing was written
Refused == last.res # OK /\ Tables = last.pre

\* C16: a request that supplies an endpoint its kind forbids (INBOUND with a
\* source, OUTBOUND with a destination), single or batch, is rejected and
\* records nothing, so every recorded INBOUND movement or batch has no source
\* and every recorded OUTBOUND one has no destination.
C16_ForbiddenEndpointRejected ==
    /\ (/\ Applying
        /\ \/ last.req.type = INBOUND /\ last.req.from_location # NoLoc
           \/ last.req.type = OUTBOUND /\ last.req.to_location # NoLoc)
       => Refused
    /\ \A id \in DOMAIN moves :
          /\ moves[id].type = INBOUND => moves[id].from_location = NoLoc
          /\ moves[id].type = OUTBOUND => moves[id].to_location = NoLoc
    /\ \A id \in DOMAIN batches :
          /\ batches[id].type = INBOUND => batches[id].from_location = NoLoc
          /\ batches[id].type = OUTBOUND => batches[id].to_location = NoLoc

\* the error the endpoints of a request call for, OK when they are complete
EndpointError(r) ==
    IF r.type = INBOUND /\ r.to_location = NoLoc THEN MissingDestination
    ELSE IF r.type = OUTBOUND /\ r.from_location = NoLoc THEN MissingSource
    ELSE IF r.type = TRANSFER /\ (r.from_location = NoLoc \/ r.to_location = NoLoc)
        THEN MissingEndpoint
    ELSE IF r.type = TRANSFER /\ r.from_location = r.to_location THEN SameLocation
    ELSE OK

C18_PositiveQuantities ==
    /\ (last.op = "apply_move" /\ last.req.qty <= 0)
       => Refused /\ last.res = InvalidQuantity
    /\ (last.op = "apply_batch" /\ last.req.lines = <<>>)
       => Refused /\ (EndpointError(last.req) = OK => last.res = EmptyBatch)
    /\ (last.op = "apply_batch" /\ \E i \in DOMAIN last.req.lines : last.req.lines[i].qty <= 0)
       => Refused /\ (EndpointError(last.req) = OK => last.res = InvalidLine)
    /\ \A id \in DOMAIN moves : moves[id].qty > 0
    /\ \A id \in DOMAIN batches :
          /\ Len(batches[id].lines) >= 1
          /\ \A i \in DOMAIN batches[id].lines : batches[id].lines[i].qty > 0

\* C18 happens: a batch whose lines for one product sum to a positive
\* quantity is refused because one of them is negative
C18_Witness ==
    /\ last.op = "apply_batch"
    /\ last.req.type = INBOUND
    /\ EndpointError(last.req) = OK
    /\ Len(last.req.lines) = 2
    /\ last.req.lines[1].product = last.req.lines[2].product
    /\ last.req.lines[2].qty < 0
    /\ last.req.lines[1].qty + last.req.lines[2].qty > 0
    /\ last.res = InvalidLine

----------------------------------------------------------------------------
(* Properties of the catalog and of recorded movements *)

\* Product p is referenced by a balance, a movement or a batch line of tables t
ProductReferenced(t, p) ==
    \/ \E k \in DOMAIN t.levels : k[1] = p
    \/ \E id \in DOMAIN t.moves : t.moves[id].product = p
    \/ \E id \in DOMAIN t.batches : p \in LineProducts(t.batches[id].lines)

\* Location l is referenced by a balance, a movement or a batch of tables t
LocationReferenced(t, l) ==
    \/ \E k \in DOMAIN t.levels : k[2] = l
    \/ \E id \in DOMAIN t.moves : l \in {t.moves[id].from_location, t.moves[id].to_location}
    \/ \E id \in DOMAIN t.batches :
          l \in {t.batches[id].from_location, t.batches[id].to_location}

\* C19: deleting a Product or a Location is refused, and changes nothing,
\* whenever a balance, a movement, a batch or a batch line references it; in
\* particular one referenced by a balance row only cannot be deleted and its
\* balance row survives the attempt.
C19_ReferencedNotDeleted ==
    /\ (last.op = "delete_product" /\ ProductReferenced(last.pre, last.req))
       => last.res # OK /\ Tables = last.pre
    /\ (last.op = "delete_location" /\ LocationReferenced(last.pre, last.req))
       => last.res # OK /\ Tables = last.pre

\* C20: recorded movements are immutable: a movement or batch appears only by
\* a successful apply, disappears only by a successful reversal of that
\* record, and keeps its kind, products, quantities and locations in between;
\* an update or partial update of either is rejected and changes no record
\* and no balance.
C20_RecordsImmutable ==
    [][/\ \A id \in DOMAIN moves \cap DOMAIN moves' : moves'[id] = moves[id]
       /\ \A id \in DOMAIN batches \cap DOMAIN batches' : batches'[id] = batches[id]
       /\ \A id \in DOMAIN moves' \ DOMAIN moves :
             last'.op = "apply_move" /\ last'.res = OK /\ last'.id = id
       /\ \A id \in DOMAIN batches' \ DOMAIN batches :
             last'.op = "apply_batch" /\ last'.res = OK /\ last'.id = id
       /\ \A id \in DOMAIN moves \ DOMAIN moves' :
             last'.op = "reverse_move" /\ last'.res = OK /\ last'.id = id
       /\ \A id \in DOMAIN batches \ DOMAIN batches' :
             last'.op = "reverse_batch" /\ last'.res = OK /\ last'.id = id
       /\ last'.op \in {"update_move", "update_batch"}
             => /\ last'.res = MethodNotAllowed
                /\ levels' = levels /\ moves' = moves /\ batches' = batches
      ]_vars

\* C20 happens: an update of a recorded movement asks for another quantity
\* and is answered 405
C20_Witness ==
    /\ last.op = "update_move"
    /\ last.id \in DOMAIN moves
    /\ last.req # moves[last.id].qty
    /\ last.res = MethodNotAllowed

----------------------------------------------------------------------------
(* Reorder suggestions: ReorderSuggestionView.get.  Quantities are counted *)
(* in hundredths, the resolution of the DecimalField columns, so that      *)
(* quantize(Decimal("0.01")) rounds to a whole number.                     *)

MaxWindow == 2
MaxCoverage == 2
MaxThreshold == 2

\* days before the query at which the record was stamped
Age(row) == IF "timestamp" \in DOMAIN row THEN row.timestamp ELSE 0

\* timestamp__gte = now - timedelta(days=days): the filter has no upper end
InWindow(row, days) == Age(row) <= days

\* the rows of `single`: OUTBOUND movements in the window
SingleRows(days) ==
    {id \in DOMAIN moves : moves[id].type = OUTBOUND /\ InWindow(moves[id], days)}

\* the batches whose lines make `batched`: OUTBOUND batches in the window
BatchedRows(days) ==
    {id \in DOMAIN batches : batches[id].type = OUTBOUND /\ InWindow(batches[id], days)}

\* totals: the products of either query, with both sums added up
totals(days) ==
    [p \in {p \in Products :
              \/ \E id \in SingleRows(days) : moves[id].product = p
              \/ \E id \in BatchedRows(days) : HasProduct(batches[id].lines, p)}
       |-> SumSet({id \in SingleRows(days) : moves[id].product = p},
                  [id \in DOMAIN moves |-> moves[id].qty])
           + SumSet(BatchedRows(days),
                    [id \in DOMAIN batches |-> LineSum(batches[id].lines, p)])]

\* (n / d).quantize(Decimal("0.01")) for n >= 0 hundredths and d > 0: the
\* context's rounding is ROUND_HALF_EVEN
quantize(n, d) ==
    LET q == n \div d
        r == n % d
    IN  IF 2 * r < d THEN q
        ELSE IF 2 * r > d THEN q + 1
        ELSE IF q % 2 = 0 THEN q ELSE q + 1

\* one pass of the loop over totals.items()
Suggestion(p, days, coverage_days) ==
    LET divisor == IF days <= 0 THEN 1 ELSE days
        avg_daily == quantize(totals(days)[p], divisor)
        on_hand == TotalOnHand(levels, p)
        target == quantize(avg_daily * coverage_days, 1)
    IN  [product |-> p, total_out |-> totals(days)[p], avg_daily_demand |-> avg_daily,
         target |-> target, on_hand_total |-> on_hand, suggested_qty |-> target - on_hand]

\* the two `continue` tests
Kept_AnySign(row, min_qty) == ~(row.suggested_qty < min_qty)

Kept(row, min_qty) == ~(row.suggested_qty < min_qty) /\ ~(row.suggested_qty <= 0)

\* data.sort(key=suggested_qty, reverse=True); rows of equal suggested_qty
\* keep the order the database returned them in, which no ORDER BY fixes
Descending(rows) ==
    \A i \in DOMAIN rows : \A j \in DOMAIN rows :
        i < j => rows[i].suggested_qty >= rows[j].suggested_qty

Sorted(S) ==
    {s \in SeqsUpTo(S, Cardinality(S)) :
        Len(s) = Cardinality(S) /\ Range(s) = S /\ Descending(s)}

\* GET /reorder-suggestions/?days=&coverage_days=&min_qty=
Suggest(days, coverage_days, min_qty) ==
    LET computed == [p \in DOMAIN totals(days) |-> Suggestion(p, days, coverage_days)]
        kept == {computed[p] : p \in {x \in DOMAIN computed : Kept(computed[x], min_qty)}}
    IN  /\ Idle
        /\ \E data \in Sorted(kept) :
             last' = [op |-> "suggest",
                      req |-> [days |-> days, coverage_days |-> coverage_days,
                               min_qty |-> min_qty],
                      res |-> OK, id |-> 0, pre |-> Tables,
                      computed |-> computed, data |-> data]
        /\ UNCHANGED <<levels, moves, batches, nextMoveId, nextBatchId, undo, proc,
                       catalog>>

\* timestamps offered: after the query, inside every window but the
\* zero-day one, and before every window
Ages == {-1, 1, MaxWindow + 2}

At(r, age) == r @@ ("timestamp" :> age)

\* demand of both products, and movements of the other kinds
AdvisorMoves ==
    {At(MoveRow(OUTBOUND, p, q, "MAIN", NoLoc), a) : p \in Products, q \in Qtys, a \in Ages}
    \cup {MoveRow(OUTBOUND, "A", 1, "MAIN", NoLoc),
          At(MoveRow(INBOUND, "A", 1, NoLoc, "MAIN"), 1),
          At(MoveRow(TRANSFER, "A", 1, "MAIN", "STAGING"), 1)}

AdvisorBatches ==
    {At(BatchRequest(OUTBOUND, "MAIN", NoLoc, <<Line("A", 1), Line("B", 2)>>), a) :
        a \in Ages}
    \cup {BatchRequest(OUTBOUND, "MAIN", NoLoc, <<Line("A", 2), Line("A", 1)>>),
          At(BatchRequest(INBOUND, NoLoc, "MAIN", <<Line("A", 1), Line("B", 1)>>), 1)}

\* one single movement and one batch are recorded, each may be reversed
RecordMove == nextMoveId = 1 /\ \E r \in AdvisorMoves : ApplySingleMovement(r)

NextAdvisor ==
    \/ RecordMove
    \/ ReverseSingleMovement(1)
    \/ \E r \in AdvisorBatches : ApplyBatchMovement(r)
    \/ ReverseBatchMovement(1)
    \/ \E days \in 0..MaxWindow, coverage_days \in 0..MaxCoverage,
          min_qty \in 0..MaxThreshold : Suggest(days, coverage_days, min_qty)
    \/ Return

SpecAdvisor == InitValidate /\ [][NextAdvisor]_vars

\* n / d rounded to a whole number of hundredths, a half rounding up
HalfUp(n, d) == (2 * n + d) \div (2 * d)

\* C22: for every product with OUTBOUND quantity S in a window of W >= 1
\* days, the advisor's average daily demand is S / W rounded to two decimals
\* with a half rounding up, its target is that rounded average times C, and
\* its suggested quantity is the target minus the product's on_hand summed
\* over all locations.
C22_AdvisorArithmetic ==
    (last.op = "suggest" /\ last.req.days >= 1) =>
        \A p \in DOMAIN last.computed :
            LET row == last.computed[p]
            IN  /\ row.avg_daily_demand = HalfUp(row.total_out, last.req.days)
                /\ row.target = row.avg_daily_demand * last.req.coverage_days
                /\ row.suggested_qty = row.target - TotalOnHand(levels, p)

\* the product has a recorded OUTBOUND movement or OUTBOUND batch line
\* that the window of the query takes in
DemandInWindow(p, days) ==
    \/ \E id \in DOMAIN moves :
          /\ moves[id].type = OUTBOUND
          /\ moves[id].product = p
          /\ InWindow(moves[id], days)
    \/ \E id \in DOMAIN batches :
          /\ batches[id].type = OUTBOUND
          /\ p \in LineProducts(batches[id].lines)
          /\ InWindow(batches[id], days)

C23_WitnessLeftOut ==
    /\ last.op = "suggest"
    /\ \E p \in DOMAIN last.computed :
         /\ last.computed[p].suggested_qty > 0
         /\ last.computed[p].suggested_qty < last.req.min_qty
    /\ \E p \in DOMAIN last.computed : last.computed[p].suggested_qty = 0
    /\ Len(last.data) = 0

\* the record was stamped within the last `days` days before the query
WithinLast(row, days) == 0 <= Age(row) /\ Age(row) <= days

\* quantity of product p in the recorded OUTBOUND movements and OUTBOUND
\* batch lines stamped within the last `days` days
RecentOutbound(p, days) ==
    SumSet({id \in DOMAIN moves :
              /\ moves[id].type = OUTBOUND
              /\ moves[id].product = p
              /\ WithinLast(moves[id], days)},
           [id \in DOMAIN moves |-> moves[id].qty])
    + SumSet({id \in DOMAIN batches :
                batches[id].type = OUTBOUND /\ WithinLast(batches[id], days)},
             [id \in DOMAIN batches |-> LineSum(batches[id].lines, p)])

\* C30: the advisor's demand total for a product is the sum of the
\* quantities of the currently recorded OUTBOUND movements and OUTBOUND batch
\* lines of that product whose timestamp lies within the last W days; a
\* product with no such record has no total.  INBOUND and TRANSFER records
\* and reversed (deleted) records contribute nothing.
C30_DemandTotal ==
    last.op = "suggest" =>
        \A p \in Products :
            IF p \in DOMAIN last.computed
            THEN last.computed[p].total_out = RecentOutbound(p, last.req.days)
            ELSE RecentOutbound(p, last.req.days) = 0

----------------------------------------------------------------------------
(* Records and balances call by call: well-formed and malformed requests,  *)
(* and reversals, against balances of both products at MAIN                *)

\* one-unit movements of product A, and one request for each way of being
\* refused before any row is read
EventMoves ==
    {r \in CatalogMoves : r.product = "A"}
    \cup {MoveRow(INBOUND, "B", 0, NoLoc, "MAIN"),
          MoveRow(INBOUND, "B", 1, NoLoc, NoLoc),
          MoveRow(OUTBOUND, "B", 1, NoLoc, NoLoc),
          MoveRow(TRANSFER, "B", 1, "MAIN", NoLoc),
          MoveRow(TRANSFER, "B", 1, "MAIN", "MAIN"),
          MoveRow("ADJUST", "B", 1, "MAIN", "STAGING")}

EventBatches ==
    CatalogBatches
    \cup {BatchRequest(INBOUND, NoLoc, "MAIN", <<>>),
          BatchRequest(INBOUND, NoLoc, "MAIN", <<Line("A", 1), Line("B", 0)>>),
          BatchRequest(OUTBOUND, NoLoc, NoLoc, <<Line("A", 1)>>),
          BatchRequest(TRANSFER, "STAGING", "STAGING", <<Line("A", 1)>>),
          BatchRequest("ADJUST", "MAIN", "STAGING", <<Line("A", 1)>>),
          BatchRequest(OUTBOUND, "STAGING", NoLoc, <<Line("B", 1), Line("A", 1)>>)}

NextEvents ==
    \/ \E r \in EventMoves : ApplySingleMovement(r)
    \/ \E id \in 1..MaxMoves : ReverseSingleMovement(id)
    \/ \E r \in EventBatches : ApplyBatchMovement(r)
    \/ ReverseBatchMovement(1)
    \/ Return

SpecEvents == InitValidate /\ [][NextEvents]_vars

\* the table without the row of one id
Without(table, id) == [x \in DOMAIN table \ {id} |-> table[x]]

\* C24: a successful ApplySingleMovement adds exactly one movement record
\* carrying the requested kind, product, quantity, source and destination; a
\* successful ApplyBatchMovement adds exactly one batch record, of the
\* requested kind and locations; a successful reversal removes exactly the record it was
\* given; a call that fails adds or removes no record and changes no balance.
C24_RecordsFollowOutcome ==
    /\ (last.op = "apply_move" /\ last.res = OK) =>
          /\ last.id \notin DOMAIN last.pre.moves
          /\ last.id \in DOMAIN moves
          /\ Without(moves, last.id) = last.pre.moves
          /\ moves[last.id] = last.req
          /\ batches = last.pre.batches
    /\ (last.op = "apply_batch" /\ last.res = OK) =>
          /\ last.id \notin DOMAIN last.pre.batches
          /\ last.id \in DOMAIN batches
          /\ Without(batches, last.id) = last.pre.batches
          /\ batches[last.id].type = last.req.type
          /\ batches[last.id].from_location = last.req.from_location
          /\ batches[last.id].to_location = last.req.to_location
          /\ moves = last.pre.moves
    /\ (last.op = "reverse_move" /\ last.res = OK) =>
          /\ last.id \in DOMAIN last.pre.moves
          /\ moves = Without(last.pre.moves, last.id)
          /\ batches = last.pre.batches
    /\ (last.op = "reverse_batch" /\ last.res = OK) =>
          /\ last.id \in DOMAIN last.pre.batches
          /\ batches = Without(last.pre.batches, last.id)
          /\ moves = last.pre.moves
    /\ (last.op \in {"apply_move", "apply_batch", "reverse_move", "reverse_batch"}
          /\ last.res # OK) => Tables = last.pre

\* a refused movement, with a movement and a batch on record
C24_Witness ==
    /\ last.op = "apply_move"
    /\ last.res = InsufficientStock
    /\ DOMAIN moves # {}
    /\ DOMAIN batches # {}

\* the balance rows the kind of a movement uses
Used(r) ==
    IF r.type = INBOUND THEN {<<r.product, r.to_location>>}
    ELSE IF r.type = OUTBOUND THEN {<<r.product, r.from_location>>}
    ELSE {<<r.product, r.from_location>>, <<r.product, r.to_location>>}

\* C25: after a successful ApplySingleMovement every balance of another
\* product or another location than the ones its kind uses is as it was
\* (no row appears, disappears or changes), and every record that existed
\* before the call (movement, batch, batch line) is unchanged.
C25_ApplyMoveFrame ==
    (last.op = "apply_move" /\ last.res = OK) =>
        /\ \A k \in Keys \ Used(last.req) :
              /\ k \in DOMAIN levels <=> k \in DOMAIN last.pre.levels
              /\ OnHand(levels, k) = OnHand(last.pre.levels, k)
        /\ \A id \in DOMAIN last.pre.moves :
              id \in DOMAIN moves /\ moves[id] = last.pre.moves[id]
        /\ batches = last.pre.batches
        /\ catalog = last.pre.catalog

\* a TRANSFER of A succeeded while other balances were stocked and a
\* movement and a batch were on record
C25_Witness ==
    /\ last.op = "apply_move"
    /\ last.res = OK
    /\ last.req.type = TRANSFER
    /\ OnHand(levels, <<"B", "MAIN">>) > 0
    /\ DOMAIN last.pre.moves # {}
    /\ DOMAIN last.pre.batches # {}

----------------------------------------------------------------------------
(* A batch whose lines are gone *)

\* a StockMoveBatch row of any kind and locations with no StockMoveLine row
\* (its lines deleted, or the header written alone), beside balances of both
\* products at MAIN
InitLineless ==
    /\ levels \in {[k \in Products \X {"MAIN"} |-> n] : n \in 0..MaxSeed}
    /\ moves = <<>>
    /\ \E t \in TYPES : \E f \in AnyLocs : \E d \in AnyLocs :
          batches = << [type |-> t, from_location |-> f, to_location |-> d,
                        lines |-> <<>>] >>
    /\ nextMoveId = 1
    /\ nextBatchId = Len(batches) + 1
    /\ last = NoCall
    /\ undo = NoUndo
    /\ proc = [w \in Workers |-> NoProc]
    /\ catalog = FullCatalog

\* one single movement beside the batch
FirstMove == nextMoveId = 1 /\ \E r \in CatalogMoves : ApplySingleMovement(r)

NextLineless ==
    \/ FirstMove
    \/ ReverseBatchMovement(1)
    \/ Return

SpecLineless == InitLineless /\ [][NextLineless]_vars

\* C27: reversing a batch that has no lines succeeds, deletes the batch and
\* changes no balance (no row is created either), whatever the kind and the
\* locations of the batch.
C27_LinelessReversal ==
    (/\ last.op = "reverse_batch"
     /\ last.id \in DOMAIN last.pre.batches
     /\ last.pre.batches[last.id].lines = <<>>) =>
        /\ last.res = OK
        /\ batches = Without(last.pre.batches, last.id)
        /\ levels = last.pre.levels
        /\ moves = last.pre.moves

\* a line-less TRANSFER batch without locations was reversed, with stock
\* on hand and a movement on record
C27_Witness ==
    /\ last.op = "reverse_batch"
    /\ last.id \in DOMAIN last.pre.batches
    /\ last.pre.batches[last.id].lines = <<>>
    /\ last.pre.batches[last.id].type = TRANSFER
    /\ last.pre.batches[last.id].from_location = NoLoc
    /\ \E k \in DOMAIN levels : levels[k] > 0
    /\ DOMAIN moves # {}

\* quantity the recorded movements and batch lines of product p bring into
\* location l (INBOUND and TRANSFER records whose destination is l)
RecordedInto(p, l) ==
    SumSet({id \in DOMAIN moves :
              /\ moves[id].product = p
              /\ moves[id].type \in {INBOUND, TRANSFER}
              /\ moves[id].to_location = l},
           [id \in DOMAIN moves |-> moves[id].qty])
    + SumSet({id \in DOMAIN batches :
                batches[id].type \in {INBOUND, TRANSFER} /\ batches[id].to_location = l},
             [id \in DOMAIN batches |-> LineSum(batches[id].lines, p)])

\* quantity they take out of location l (OUTBOUND and TRANSFER records
\* whose source is l)
RecordedOutOf(p, l) ==
    SumSet({id \in DOMAIN moves :
              /\ moves[id].product = p
              /\ moves[id].type \in {OUTBOUND, TRANSFER}
              /\ moves[id].from_location = l},
           [id \in DOMAIN moves |-> moves[id].qty])
    + SumSet({id \in DOMAIN batches :
                batches[id].type \in {OUTBOUND, TRANSFER} /\ batches[id].from_location = l},
             [id \in DOMAIN batches |-> LineSum(batches[id].lines, p)])

\* C28: starting from empty balances and an empty history, after any
\* sequence of applies and reversals on_hand of every (product, location)
\* equals what the records that currently exist bring into the location
\* minus what they take out of it.
C28_LedgerConsistent ==
    \A k \in Keys : OnHand(levels, k) = RecordedInto(k[1], k[2]) - RecordedOutOf(k[1], k[2])

----------------------------------------------------------------------------
(* Concurrent callers.  Each call is one transaction on a database with    *)
(* row locks: a SELECT ... FOR UPDATE (or the INSERT of get_or_create)     *)
(* waits while another transaction holds the row; rows read for a check    *)
(* are read after they are locked; the updates, the record written or      *)
(* deleted and the commit take effect together; a raise rolls back.        *)

Busy(w) == proc[w].pc \in {"listing", "locking", "checked"}

\* fault: the rows are read without select_for_update()
LockFree_Unlocked(w, k) == TRUE

\* select_for_update(): the row is free unless another transaction holds it
LockFree(w, k) == \A v \in Workers \ {w} : k \notin proc[v].held

\* the call starts: validation has run, no row is touched yet
Enter(w, op, req, plan) ==
    proc' = [proc EXCEPT ![w] =
               IF plan.err # OK
               THEN [pc |-> "done", held |-> {}, op |-> op, req |-> req,
                     res |-> plan.err, made |-> {},
                     raced |-> \E v \in Workers \ {w} : Busy(v)]
               ELSE [pc |-> "locking", held |-> {}, op |-> op, req |-> req,
                     plan |-> plan, got |-> 0, made |-> {},
                     raced |-> \E v \in Workers \ {w} : Busy(v)]]

\* apply_stock_move, up to its first _get_level_for_update
CallApplyMove(w, r) ==
    /\ proc[w].pc = "idle"
    /\ Enter(w, "apply_move", r,
             PlanApplyMove(r.type, r.product, r.qty, r.from_location, r.to_location))
    /\ UNCHANGED <<levels, moves, batches, nextMoveId, nextBatchId, last, undo, catalog>>

\* apply_stock_batch_move, up to its first lock_level
CallApplyBatch(w, r) ==
    /\ proc[w].pc = "idle"
    /\ Enter(w, "apply_batch", r,
             PlanApplyBatch(r.type, r.from_location, r.to_location, r.lines))
    /\ UNCHANGED <<levels, moves, batches, nextMoveId, nextBatchId, last, undo, catalog>>

\* StockMoveViewSet.destroy: get_object reads the row, outside the transaction
LookupMove(w, id) ==
    /\ proc[w].pc = "idle"
    /\ IF id \in DOMAIN moves
       THEN Enter(w, "reverse_move", id, PlanReverseMove(moves[id]))
       ELSE Enter(w, "reverse_move", id, Reject(NotFound))
    /\ UNCHANGED <<levels, moves, batches, nextMoveId, nextBatchId, last, undo, catalog>>

\* StockMoveBatchViewSet.destroy: get_object reads the batch header
LookupBatch(w, id) ==
    /\ proc[w].pc = "idle"
    /\ IF id \in DOMAIN batches
       THEN proc' = [proc EXCEPT ![w] =
                       [pc |-> "listing", held |-> {}, op |-> "reverse_batch",
                        req |-> id, batch |-> batches[id],
                        raced |-> \E v \in Workers \ {w} : Busy(v)]]
       ELSE Enter(w, "reverse_batch", id, Reject(NotFound))
    /\ UNCHANGED <<levels, moves, batches, nextMoveId, nextBatchId, last, undo, catalog>>

\* reverse_stock_batch_move: `lines = list(batch.lines.select_related("product"))`
\* reads the committed StockMoveLine rows of the batch
ListLines(w) ==
    /\ proc[w].pc = "listing"
    /\ LET id == proc[w].req
           lines == IF id \in DOMAIN batches THEN batches[id].lines ELSE <<>>
       IN  proc' = [proc EXCEPT ![w] =
                      [pc |-> "locking", held |-> {}, op |-> "reverse_batch",
                       req |-> id, plan |-> PlanReverseBatch(proc[w].batch, lines),
                       got |-> 0, made |-> {}, raced |-> proc[w].raced]]
    /\ UNCHANGED <<levels, moves, batches, nextMoveId, nextBatchId, last, undo, catalog>>

\* the next _get_level_for_update of the call: get_or_create returns the
\* committed row, locked, or inserts one (`made`) when there is none
Lock(w) ==
    /\ proc[w].pc = "locking"
    /\ proc[w].got < Len(proc[w].plan.locks)
    /\ LET k == proc[w].plan.locks[proc[w].got + 1]
       IN  /\ LockFree(w, k)
           /\ proc' = [proc EXCEPT ![w].held = @ \cup {k}, ![w].got = @ + 1,
                                   ![w].made = IF k \in DOMAIN levels \/ k \in @
                                               THEN @ ELSE @ \cup {k}]
    /\ UNCHANGED <<levels, moves, batches, nextMoveId, nextBatchId, last, undo, catalog>>

\* refresh_from_db and the feasibility comparisons; a raise rolls back and
\* releases the rows
Check(w) ==
    /\ proc[w].pc = "locking"
    /\ proc[w].got = Len(proc[w].plan.locks)
    /\ proc' = [proc EXCEPT ![w] =
                  IF ChecksPass(levels, proc[w].plan)
                  THEN [proc[w] EXCEPT !.pc = "checked"]
                  ELSE [pc |-> "done", held |-> {}, op |-> proc[w].op,
                        req |-> proc[w].req, res |-> proc[w].plan.failErr,
                        made |-> {}, raced |-> proc[w].raced]]
    /\ UNCHANGED <<levels, moves, batches, nextMoveId, nextBatchId, last, undo, catalog>>

\* the F("on_hand") updates, the record created or deleted, and the commit
Commit(w) ==
    /\ proc[w].pc = "checked"
    /\ levels' = ApplyDeltas(LockAll(levels, proc[w].plan.locks), proc[w].plan.deltas)
    /\ moves' =
         IF proc[w].op = "apply_move"
         THEN LET r == proc[w].req
              IN  moves @@ (nextMoveId :>
                    MoveRow(r.type, r.product, r.qty, r.from_location, r.to_location))
         ELSE IF proc[w].op = "reverse_move"
         THEN [x \in DOMAIN moves \ {proc[w].req} |-> moves[x]]   \* move.delete()
         ELSE moves
    /\ nextMoveId' = IF proc[w].op = "apply_move" THEN nextMoveId + 1 ELSE nextMoveId
    /\ batches' =
         IF proc[w].op = "apply_batch"
         THEN LET r == proc[w].req
              IN  batches @@ (nextBatchId :>
                    BatchRow(r.type, r.from_location, r.to_location, r.lines))
         ELSE IF proc[w].op = "reverse_batch"
         THEN [x \in DOMAIN batches \ {proc[w].req} |-> batches[x]]  \* batch.delete()
         ELSE batches
    /\ nextBatchId' = IF proc[w].op = "apply_batch" THEN nextBatchId + 1 ELSE nextBatchId
    /\ proc' = [proc EXCEPT ![w] =
                  [pc |-> "done", held |-> {}, op |-> proc[w].op, req |-> proc[w].req,
                   res |-> OK, made |-> proc[w].made, raced |-> proc[w].raced]]
    /\ UNCHANGED <<last, undo, catalog>>

\* Outbound traffic on the balances at MAIN: every caller makes one call
RaceMoves ==
    {MoveRow(OUTBOUND, "A", q, "MAIN", NoLoc) : q \in Qtys}
    \cup {MoveRow(TRANSFER, "A", q, "MAIN", "STAGING") : q \in Qtys}

RaceBatches ==
    {BatchRequest(OUTBOUND, "MAIN", NoLoc, <<Line("A", 1), Line("B", 1)>>),
     BatchRequest(TRANSFER, "MAIN", "STAGING", <<Line("B", 1), Line("A", 1)>>)}

InitRace ==
    /\ levels \in {[k \in Products \X {"MAIN"} |-> n] : n \in 0..MaxSeed}
    /\ moves = <<>>
    /\ batches = <<>>
    /\ nextMoveId = 1
    /\ nextBatchId = 1
    /\ last = NoCall
    /\ undo = [state |-> "seed", pre |-> levels]
    /\ proc = [w \in Workers |-> NoProc]
    /\ catalog = FullCatalog

NextRace ==
    \E w \in Workers :
        \/ \E r \in RaceMoves : CallApplyMove(w, r)
        \/ \E r \in RaceBatches : CallApplyBatch(w, r)
        \/ Lock(w)
        \/ Check(w)
        \/ Commit(w)

SpecRace == InitRace /\ [][NextRace]_vars

\* Deleting a record that one successful apply has just written
AppliedMoves ==
    {x \in SeedLevels \X MoveRequests :
        Outcome(x[1], PlanApplyMove(x[2].type, x[2].product, x[2].qty,
                                    x[2].from_location, x[2].to_location)).res = OK}

AppliedBatches ==
    {x \in SeedLevels \X BatchRequests :
        Outcome(x[1], PlanApplyBatch(x[2].type, x[2].from_location,
                                     x[2].to_location, x[2].lines)).res = OK}

DeleteStarts ==
    {[levels |-> Outcome(x[1], PlanApplyMove(x[2].type, x[2].product, x[2].qty,
                                x[2].from_location, x[2].to_location)).levels,
      moves |-> <<x[2]>>, batches |-> <<>>] : x \in AppliedMoves}
    \cup
    {[levels |-> Outcome(x[1], PlanApplyBatch(x[2].type, x[2].from_location,
                                x[2].to_location, x[2].lines)).levels,
      moves |-> <<>>,
      batches |-> <<BatchRow(x[2].type, x[2].from_location, x[2].to_location,
                             x[2].lines)>>] : x \in AppliedBatches}

InitDelete ==
    /\ \E t \in DeleteStarts :
          /\ levels = t.levels
          /\ moves = t.moves
          /\ batches = t.batches
    /\ nextMoveId = Len(moves) + 1
    /\ nextBatchId = Len(batches) + 1
    /\ last = NoCall
    /\ undo = [state |-> "seed", pre |-> levels]
    /\ proc = [w \in Workers |-> NoProc]
    /\ catalog = FullCatalog

NextDelete ==
    \E w \in Workers :
        \/ LookupMove(w, 1)
        \/ LookupBatch(w, 1)
        \/ ListLines(w)
        \/ Lock(w)
        \/ Check(w)
        \/ Commit(w)

SpecDelete == InitDelete /\ [][NextDelete]_vars

\* Transfers of A between MAIN and STAGING, in both directions, next to the
\* reversal of a recorded transfer of A
CrossMoves ==
    {MoveRow(TRANSFER, "A", q, lt[1], lt[2]) :
        q \in Qtys, lt \in {x \in Locations \X Locations : x[1] # x[2]}}

InitCross ==
    /\ \E t \in DeleteStarts :
          /\ t.moves # <<>>
          /\ t.moves[1].type = TRANSFER
          /\ t.moves[1].product = "A"
          /\ levels = t.levels
          /\ moves = t.moves
          /\ batches = t.batches
    /\ nextMoveId = Len(moves) + 1
    /\ nextBatchId = Len(batches) + 1
    /\ last = NoCall
    /\ undo = [state |-> "seed", pre |-> levels]
    /\ proc = [w \in Workers |-> NoProc]
    /\ catalog = FullCatalog

NextCross ==
    \E w \in Workers :
        \/ \E r \in CrossMoves : CallApplyMove(w, r)
        \/ LookupMove(w, 1)
        \/ Lock(w)
        \/ Check(w)
        \/ Commit(w)

SpecCross == InitCross /\ [][NextCross]_vars

\* First movements of A at STAGING, where no balance row exists yet, next to
\* the reversal of a recorded INBOUND of A into MAIN
RowMoves ==
    {MoveRow(INBOUND, "A", q, NoLoc, "STAGING") : q \in Qtys}
    \cup {MoveRow(TRANSFER, "A", q, "MAIN", "STAGING") : q \in Qtys}
    \cup {MoveRow(OUTBOUND, "A", q, "MAIN", NoLoc) : q \in Qtys}

InitRows ==
    /\ \E q \in Qtys :
          /\ levels = (<<"A", "MAIN">> :> q)
          /\ moves = << MoveRow(INBOUND, "A", q, NoLoc, "MAIN") >>
    /\ batches = <<>>
    /\ nextMoveId = Len(moves) + 1
    /\ nextBatchId = Len(batches) + 1
    /\ last = NoCall
    /\ undo = [state |-> "seed", pre |-> levels]
    /\ proc = [w \in Workers |-> NoProc]
    /\ catalog = FullCatalog

NextRows ==
    \E w \in Workers :
        \/ \E r \in RowMoves : CallApplyMove(w, r)
        \/ LookupMove(w, 1)
        \/ Lock(w)
        \/ Check(w)
        \/ Commit(w)

SpecRows == InitRows /\ [][NextRows]_vars

----------------------------------------------------------------------------
(* Properties of the concurrent service *)

Done(w) == proc[w].pc = "done"

\* what the request of caller w asks to take from (p, MAIN)
Withdrawn(w, p) ==
    IF proc[w].op = "apply_move"
    THEN (IF proc[w].req.product = p THEN proc[w].req.qty ELSE 0)
    ELSE LineSum(proc[w].req.lines, p)

Succeeded == {w \in Workers : Done(w) /\ proc[w].res = OK}

Effect(w, k) ==
    LET r == proc[w].req
        q == IF proc[w].op = "apply_move"
             THEN (IF r.product = k[1] THEN r.qty ELSE 0)
             ELSE LineSum(r.lines, k[1])
    IN  (IF r.type \in {INBOUND, TRANSFER} /\ r.to_location = k[2] THEN q ELSE 0)
        - (IF r.type \in {OUTBOUND, TRANSFER} /\ r.from_location = k[2] THEN q ELSE 0)

\* C13: no update is lost: whatever the interleaving of the concurrent
\* mutating calls, every balance equals its initial on_hand plus the sum of
\* the signed deltas of the calls that have succeeded on it.
C13_NoLostUpdate ==
    \A k \in Keys :
        OnHand(levels, k)
          = OnHand(undo.pre, k) + SumSet(Succeeded, [w \in Workers |-> Effect(w, k)])

\* C13 happens: two overlapping calls on the same balance have both succeeded
C13_Witness ==
    \E w1, w2 \in Workers :
        /\ w1 # w2
        /\ {w1, w2} \subseteq Succeeded
        /\ proc[w2].raced
        /\ proc[w1].op # proc[w2].op
        /\ Effect(w1, <<"A", "MAIN">>) < 0
        /\ Effect(w2, <<"A", "MAIN">>) < 0

\* caller w is blocked in _get_level_for_update on a row that caller v holds
WaitsFor(w, v) ==
    /\ proc[w].pc = "locking"
    /\ proc[w].got < Len(proc[w].plan.locks)
    /\ proc[w].plan.locks[proc[w].got + 1] \in proc[v].held

\* two callers each hold a row the other is waiting for
LockCycle(w1, w2) == w1 # w2 /\ WaitsFor(w1, w2) /\ WaitsFor(w2, w1)

\* C14: a single TRANSFER and the reversal of a single TRANSFER take their two
\* balance locks in one deterministic key order, so two concurrent calls on
\* the same product (opposite TRANSFERs between the same two locations, or a
\* TRANSFER and the reversal of a TRANSFER between them) never each hold one
\* of the two locks while waiting for the one the other holds.
C14_TransferLockOrder ==
    \A w1, w2 \in Workers :
        (/\ proc[w1].pc # "idle" /\ proc[w2].pc # "idle"
         /\ proc[w1].op \in {"apply_move", "reverse_move"}
         /\ proc[w2].op \in {"apply_move", "reverse_move"})
        => ~LockCycle(w1, w2)

\* C15: apply_stock_batch_move takes the balance locks of its consolidated
\* products in an order that does not depend on the order of the input lines,
\* so two concurrent batches on the same location that list the same two
\* products in opposite orders never each hold one product's balance lock
\* while waiting for the other's (and so both can run to completion).
C15_BatchLockOrder ==
    \A w1, w2 \in Workers :
        (/\ proc[w1].pc # "idle" /\ proc[w2].pc # "idle"
         /\ proc[w1].op = "apply_batch"
         /\ proc[w2].op = "apply_batch")
        => ~LockCycle(w1, w2)

\* InventoryLevel rows of key k in the committed table: the one present at
\* the start and those inserted by the calls that have committed
RowCount(k) ==
    (IF k \in DOMAIN undo.pre THEN 1 ELSE 0)
    + Cardinality({w \in Succeeded : k \in proc[w].made})

\* C21: there is at most one balance row per (product, location), also when
\* two calls touch a pair without a row for the first time concurrently; the
\* row is created by the first call that commits on the pair, and no apply or
\* reversal ever deletes a row (a balance brought back to zero stays as a row
\* with on_hand = 0).
C21_OneRowPerPair ==
    /\ [](\A k \in Keys :
            /\ RowCount(k) <= 1
            /\ k \in DOMAIN levels <=> RowCount(k) = 1)
    /\ [][DOMAIN levels \subseteq DOMAIN levels']_vars

\* C21 happens: two overlapping calls both touched (A, STAGING), which had no
\* row, and both committed; the row of (A, MAIN) is still there
C21_Witness ==
    /\ \E w1, w2 \in Workers :
          /\ w1 # w2
          /\ {w1, w2} \subseteq Succeeded
          /\ proc[w2].raced
          /\ proc[w1].op = "apply_move" /\ proc[w2].op = "apply_move"
          /\ proc[w1].req.to_location = "STAGING"
          /\ proc[w2].req.to_location = "STAGING"
          /\ <<"A", "STAGING">> \notin DOMAIN undo.pre
          /\ <<"A", "STAGING">> \in proc[w1].made
    /\ <<"A", "MAIN">> \in DOMAIN levels

\* C9: a recorded MovementEvent or BatchEvent is reversed at most once: of
\* any two reversal requests for the same record, one after the other or
\* concurrent (both having looked the record up before either commits), only
\* one applies the inverse delta to the balances.
C9_ReversedAtMostOnce ==
    \A w1, w2 \in Workers :
        (/\ w1 # w2
         /\ Done(w1) /\ Done(w2)
         /\ proc[w1].op = proc[w2].op
         /\ proc[w1].req = proc[w2].req)
        => ~(proc[w1].res = OK /\ proc[w2].res = OK)

----------------------------------------------------------------------------
(* Malformed requests among overlapping calls *)

\* requests refused by the checks that precede the first
\* _get_level_for_update, and two well-formed ones that take rows
GateMoves ==
    {MoveRow(INBOUND, "A", 0, NoLoc, "MAIN"),
     MoveRow(INBOUND, "A", 1, NoLoc, NoLoc),
     MoveRow(OUTBOUND, "A", 1, NoLoc, NoLoc),
     MoveRow(TRANSFER, "A", 1, "MAIN", NoLoc),
     MoveRow(TRANSFER, "A", 1, "MAIN", "MAIN"),
     MoveRow("ADJUST", "A", 1, "MAIN", "STAGING"),
     MoveRow(OUTBOUND, "A", 1, "MAIN", NoLoc),
     MoveRow(TRANSFER, "A", 1, "MAIN", "STAGING")}

GateBatches ==
    {BatchRequest(INBOUND, NoLoc, "MAIN", <<>>),
     BatchRequest(INBOUND, NoLoc, "MAIN", <<Line("A", 1), Line("A", 0)>>),
     BatchRequest(OUTBOUND, NoLoc, NoLoc, <<Line("A", 1)>>),
     BatchRequest(TRANSFER, "MAIN", "MAIN", <<Line("A", 1)>>),
     BatchRequest("ADJUST", "MAIN", "STAGING", <<Line("A", 1)>>),
     BatchRequest(OUTBOUND, "MAIN", NoLoc, <<Line("A", 1)>>)}

\* product A was received at MAIN; a second StockMove row, written to the
\* table directly, has no destination (to_location is null=True)
InitGate ==
    /\ \E q \in Qtys :
          /\ levels = (<<"A", "MAIN">> :> q)
          /\ moves = << MoveRow(INBOUND, "A", q, NoLoc, "MAIN"),
                        MoveRow(INBOUND, "A", 1, NoLoc, NoLoc) >>
    /\ batches = <<>>
    /\ nextMoveId = Len(moves) + 1
    /\ nextBatchId = Len(batches) + 1
    /\ last = NoCall
    /\ undo = [state |-> "seed", pre |-> levels]
    /\ proc = [w \in Workers |-> NoProc]
    /\ catalog = FullCatalog

NextGate ==
    \E w \in Workers :
        \/ \E r \in GateMoves : CallApplyMove(w, r)
        \/ \E r \in GateBatches : CallApplyBatch(w, r)
        \/ \E id \in 1..MaxMoves : LookupMove(w, id)
        \/ Lock(w)
        \/ Check(w)
        \/ Commit(w)

SpecGate == InitGate /\ [][NextGate]_vars

\* the kind is unknown or an endpoint the kind needs is missing
BadEndpoints(type, from_location, to_location) ==
    \/ type \notin TYPES
    \/ type = INBOUND /\ to_location = NoLoc
    \/ type = OUTBOUND /\ from_location = NoLoc
    \/ type = TRANSFER /\ (from_location = NoLoc \/ to_location = NoLoc)

\* the call of a worker, as it was made, is one that validation refuses
Malformed(p, recorded) ==
    \/ /\ p.op = "apply_move"
       /\ \/ p.req.qty <= 0
          \/ BadEndpoints(p.req.type, p.req.from_location, p.req.to_location)
          \/ p.req.type = TRANSFER /\ p.req.from_location = p.req.to_location
    \/ /\ p.op = "apply_batch"
       /\ \/ BadEndpoints(p.req.type, p.req.from_location, p.req.to_location)
          \/ p.req.type = TRANSFER /\ p.req.from_location = p.req.to_location
          \/ p.req.lines = <<>>
          \/ \E i \in DOMAIN p.req.lines : p.req.lines[i].qty <= 0
    \/ /\ p.op = "reverse_move"
       /\ p.req \in DOMAIN recorded
       /\ BadEndpoints(recorded[p.req].type, recorded[p.req].from_location,
                       recorded[p.req].to_location)

ValidationErrors ==
    {InvalidQuantity, MissingDestination, MissingSource, MissingEndpoint, SameLocation,
     UnknownKind, EmptyBatch, InvalidLine}

\* C26: a malformed ApplySingleMovement, ApplyBatchMovement or
\* ReverseSingleMovement is answered with its validation failure in the step
\* that starts it, whatever rows other calls hold: it takes or creates no
\* balance row, changes no table, and never waits; and no call that holds a
\* row or waits for one is malformed.
C26_ValidationBeforeLocks ==
    /\ [](\A w \in Workers :
            (Busy(w) \/ proc[w].held # {}) => ~Malformed(proc[w], moves))
    /\ [][\A w \in Workers :
            (proc[w].pc = "idle" /\ proc'[w].pc # "idle" /\ Malformed(proc'[w], moves)) =>
                /\ proc'[w].pc = "done"
                /\ proc'[w].res \in ValidationErrors
                /\ proc'[w].held = {}
                /\ proc'[w].made = {}
                /\ levels' = levels /\ moves' = moves /\ batches' = batches]_vars

\* a malformed request naming (A, MAIN) was answered while another call
\* held the row of (A, MAIN)
C26_Witness ==
    \E w \in Workers : \E v \in Workers \ {w} :
        /\ proc[w].pc = "done"
        /\ proc[w].op \in {"apply_move", "apply_batch"}
        /\ proc[w].res \in ValidationErrors
        /\ proc[w].req.from_location = "MAIN"
        /\ proc[w].raced
        /\ Busy(v)
        /\ <<"A", "MAIN">> \in proc[v].held

\* the reversal of the record without destination was refused while another
\* call held a row
C26_WitnessReverse ==
    \E w \in Workers : \E v \in Workers \ {w} :
        /\ proc[w].pc = "done"
        /\ proc[w].op = "reverse_move"
        /\ proc[w].res = MissingDestination
        /\ Busy(v)
        /\ proc[v].held # {}

\* C29: when the reversal of the INBOUND movement of quantity q into
\* (A, MAIN) overlaps an OUTBOUND of A from MAIN, no other call is made, and
\* the balance cannot cover both, exactly one of the two succeeds, the other fails with its own
\* feasibility error, and on_hand of (A, MAIN) is never negative.
C29_ReversalRacesConsumption ==
    /\ OnHand(levels, <<"A", "MAIN">>) >= 0
    /\ \A w \in Workers : \A v \in Workers \ {w} :
          (/\ proc[w].pc = "done" /\ proc[v].pc = "done"
           /\ proc[w].raced \/ proc[v].raced
           /\ \A u \in Workers \ {w, v} : proc[u].pc = "idle"
           /\ proc[w].op = "reverse_move" /\ proc[w].req = 1
           /\ proc[v].op = "apply_move"
           /\ proc[v].req.type = OUTBOUND
           /\ OnHand(undo.pre, <<"A", "MAIN">>) < undo.pre[<<"A", "MAIN">>] + proc[v].req.qty)
          => \/ proc[w].res = OK /\ proc[v].res = InsufficientStock
             \/ proc[w].res = ReversalWouldGoNegative /\ proc[v].res = OK

\* the two overlapped and the consumption won: the reversal was refused
C29_Witness ==
    \E w \in Workers : \E v \in Workers \ {w} :
        /\ proc[w].pc = "done" /\ proc[v].pc = "done"
        /\ proc[w].raced
        /\ proc[w].op = "reverse_move" /\ proc[w].res = ReversalWouldGoNegative
        /\ proc[v].op = "apply_move" /\ proc[v].req.type = OUTBOUND /\ proc[v].res = OK
        /\ 1 \in DOMAIN moves

====
